---- MODULE Spec2Model ----
(***************************************************************************)
(* A model of gpt-code: the REPL loop of src/gptcode.py (main), its slash  *)
(* command registry (src/commands.py) and the tools run_tool, read_tool    *)
(* and edit_tool.  Text is a sequence of one-character strings, so that    *)
(* startswith, split, strip, lower, replace and the text-mode newline      *)
(* translation are computed as Python computes them.                      *)
(***************************************************************************)
EXTENDS Integers, Sequences, FiniteSets, TLC

VARIABLES
    pc,              \* main: "input" (line 296), "running" (line 317), "returned", "killed"
    context,         \* main's local `context`
    prompt,          \* main's local `prompt`
    result,          \* main's local `result` (a handler's result or the Runner's RunResult)
    out,             \* what the current loop iteration has printed
    exitCode,        \* <<>> while main runs, <<c>> once main returned c
    runnerInput,     \* the history handed to Runner.run at line 317
    turnItems,       \* the items the Runner has produced so far in the running turn
    cancelRequested, \* asyncio: the first SIGINT asked for main's task to be cancelled
    file,            \* the bytes of the file a file tool works on
    toolArgs,        \* the arguments of the tool calls under study
    toolLog,         \* the tool calls made so far: arguments, file before, result
    spawned          \* the commands run_command handed to the shell

replVars == <<pc, context, prompt, result, out, exitCode, runnerInput, turnItems,
              cancelRequested>>
toolVars == <<file, toolArgs, toolLog, spawned>>
vars == <<pc, context, prompt, result, out, exitCode, runnerInput, turnItems,
          cancelRequested, file, toolArgs, toolLog, spawned>>

----------------------------------------------------------------------------
(* Bounds of the model. *)

\* The longest conversation context a turn may produce.
MaxContext == 5

----------------------------------------------------------------------------
(* Python text primitives. *)

Whitespace == {" ", "\t", "\n", "\r"}

None == [type |-> "NoneType"]

startswith(s, c) == Len(s) > 0 /\ s[1] = c

\* The index of the first character of s at or after i that is (is not, for
\* white = FALSE) whitespace; Len(s) + 1 when there is none.
RECURSIVE Scan(_, _, _)
Scan(s, i, white) ==
    IF i > Len(s) THEN Len(s) + 1
    ELSE IF (s[i] \in Whitespace) = white THEN i
    ELSE Scan(s, i + 1, white)

\* s.split(): the maximal runs of non-whitespace characters, in order.
RECURSIVE SplitFrom(_, _)
SplitFrom(s, i) ==
    LET b == Scan(s, i, FALSE)
        e == Scan(s, b, TRUE)
    IN  IF b > Len(s) THEN <<>>
        ELSE <<SubSeq(s, b, e - 1)>> \o SplitFrom(s, e)

split(s) == SplitFrom(s, 1)

----------------------------------------------------------------------------
(* The command registry. *)

Command(name, description, handler) ==
    [name |-> name, description |-> description, handler |-> handler]

\* A dict: its entries in insertion order, one per key.
RECURSIVE DictIndex(_, _, _)
DictIndex(commands, name, i) ==
    IF i > Len(commands) THEN 0
    ELSE IF commands[i].name = name THEN i
    ELSE DictIndex(commands, name, i + 1)

register(commands, name, description, handler) ==
    LET i == DictIndex(commands, name, 1)
    IN  IF i = 0 THEN Append(commands, Command(name, description, handler))
        ELSE [commands EXCEPT ![i] = Command(name, description, handler)]

get_command(commands, name) ==
    LET i == DictIndex(commands, name, 1)
    IN  IF i = 0 THEN None ELSE commands[i]

list_commands(commands) == commands

cmd_system ==
    register(
        register(
            register(<<>>, <<"/", "h", "e", "l", "p">>, "Show this help message",
                     "cmd_help"),
            <<"/", "c", "l", "e", "a", "r">>, "Clear conversation history", "cmd_clear"),
        <<"/", "e", "x", "i", "t">>, "Exit GPT Code", "cmd_exit")

\* What each handler prints, and what it returns.
Nothing == [kind |-> "none"]

HandlerPrints(handler, ctx) ==
    CASE handler = "cmd_help" ->
            [kind |-> "help",
             text |-> [i \in 1..Len(list_commands(cmd_system)) |->
                          <<list_commands(cmd_system)[i].name,
                            list_commands(cmd_system)[i].description>>]]
      [] handler = "cmd_clear" -> [kind |-> "cleared"]
      [] OTHER -> Nothing

\* cmd_clear, were it to hand the context back instead of an empty list.
cmd_clear_keep(ctx) == [type |-> "list", value |-> ctx]

cmd_clear(ctx) == [type |-> "list", value |-> <<>>]

cmd_exit(ctx) == [type |-> "int", value |-> 0]

cmd_help(ctx) == None

HandlerResult(handler, ctx) ==
    CASE handler = "cmd_help" -> cmd_help(ctx)
      [] handler = "cmd_clear" -> cmd_clear(ctx)
      [] handler = "cmd_exit" -> cmd_exit(ctx)

----------------------------------------------------------------------------
(* The REPL loop. *)

\* The lines the operator types (input() returns them without the newline).
InputLines ==
    { <<"/", "h", "e", "l", "p">>,
      <<"/", "c", "l", "e", "a", "r">>,
      <<"/", "e", "x", "i", "t">>,
      <<"/", "q", "u", "i", "t">>,
      <<"/", "e", "x", "i", "t", " ", "x">>,
      <<"/", "e", "x", "i", "t", "s">>,
      <<"/">>,
      <<" ", "/", "e", "x", "i", "t">>,
      <<"h", "i">>,
      <<>> }

\* The messages of the exceptions a turn can end with.
RunnerErrors == {"Max turns exceeded", "tool failed"}

UserItem(p) == [role |-> "user", content |-> p]
ToolItem == [role |-> "tool", content |-> <<"t">>]
AssistantItem == [role |-> "assistant", content |-> <<"a">>]

\* Line 299, were only registered commands kept from the Runner.
IsCommandLineKnown(p) ==
    startswith(p, "/") /\ get_command(cmd_system, split(p)[1]) # None

\* Line 299: which lines are commands.
IsCommandLine(p) == startswith(p, "/")

\* Lines 317-324: the history handed to the Runner.
RunnerHistory(ctx, p) == ctx \o <<UserItem(p)>>

\* Line 325, were the user item appended to the returned history.
CommitMerged(ctx, p, res) == Append(res.history, UserItem(p))

\* Line 325: the context after a turn that returned `res`.
Commit(ctx, p, res) == res.history

\* Lines 333-334, were the failed turn's items kept.
ContextAfterErrorPartial(ctx, input, partial) == input \o partial

\* Lines 333-334: the context after a turn that raised, the Runner having
\* produced `partial`.
ContextAfterError(ctx, input, partial) == ctx

\* Lines 299-314: a command line.
RunCommandLine(line) ==
    LET cmd_name == split(line)[1]
        command == get_command(cmd_system, cmd_name)
    IN  IF command # None
        THEN LET r == HandlerResult(command.handler, context)
             IN  /\ result' = r
                 /\ out' = HandlerPrints(command.handler, context)
                 /\ IF r.type = "int"
                    THEN /\ pc' = "returned"
                         /\ exitCode' = <<r.value>>
                         /\ context' = context
                    ELSE /\ pc' = "input"
                         /\ exitCode' = exitCode
                         /\ context' = IF r # None THEN r.value ELSE context
        ELSE /\ out' = [kind |-> "unknown", text |-> cmd_name]
             /\ pc' = "input"
             /\ UNCHANGED <<result, exitCode, context>>

\* Lines 296-324: input() returns `line`; a command is carried out, any other
\* line starts a turn.
ReadLine(line) ==
    /\ pc = "input"
    /\ prompt' = line
    /\ IF IsCommandLine(line)
       THEN /\ RunCommandLine(line)
            /\ UNCHANGED <<runnerInput, turnItems>>
       ELSE /\ Len(context) + 2 <= MaxContext
            /\ pc' = "running"
            /\ runnerInput' = RunnerHistory(context, line)
            /\ turnItems' = <<>>
            /\ out' = Nothing
            /\ UNCHANGED <<result, exitCode, context>>
    /\ UNCHANGED <<cancelRequested, toolVars>>

\* Line 296: input() raises EOFError, which line 333 catches.
InputEOF ==
    /\ pc = "input"
    /\ out' = [kind |-> "error", text |-> "EOF when reading a line"]
    /\ UNCHANGED <<pc, context, prompt, result, exitCode, runnerInput, turnItems,
                   cancelRequested, toolVars>>

\* The Runner calls a tool and records the call.
ToolCall ==
    /\ pc = "running"
    /\ ~cancelRequested
    /\ Len(runnerInput) + Len(turnItems) + 2 <= MaxContext
    /\ turnItems' = Append(turnItems, ToolItem)
    /\ UNCHANGED <<pc, context, prompt, result, out, exitCode, runnerInput,
                   cancelRequested, toolVars>>

\* Lines 317-328: Runner.run returns; the context is replaced, the answer printed.
RunnerReturns ==
    /\ pc = "running"
    /\ ~cancelRequested
    /\ result' = [type |-> "RunResult",
                  history |-> runnerInput \o turnItems \o <<AssistantItem>>,
                  final_output |-> AssistantItem.content]
    /\ context' = Commit(context, prompt, result')
    /\ out' = [kind |-> "answer", text |-> result'.final_output]
    /\ pc' = "input"
    /\ UNCHANGED <<prompt, exitCode, runnerInput, turnItems, cancelRequested, toolVars>>

\* Lines 317, 333-334: Runner.run raises an Exception.
RunnerRaises(msg) ==
    /\ pc = "running"
    /\ out' = [kind |-> "error", text |-> msg]
    /\ context' = ContextAfterError(context, runnerInput, turnItems)
    /\ pc' = "input"
    /\ UNCHANGED <<prompt, result, exitCode, runnerInput, turnItems, cancelRequested,
                   toolVars>>

\* What a SIGINT does while main waits in input() (line 296).  asyncio.run
\* (line 353) either leaves Python's handler in place, and KeyboardInterrupt is
\* raised in main and caught at line 330, or installs its own, whose first call
\* only asks for main's task to be cancelled and whose later calls raise.
InterruptOutcomesAtInput == {"raised", "cancel"}

\* What a SIGINT does while main waits in `await Runner.run` (line 317): the
\* event loop is what runs, so main's task is cancelled (CancelledError is no
\* Exception, and passes lines 330-334) or KeyboardInterrupt leaves the loop;
\* either ends asyncio.run.  It is raised inside main's task only when the
\* signal lands in code the task itself is running.
InterruptOutcomesInTurn == {"raised", "killed"}

\* Lines 330-332.
CatchKeyboardInterrupt ==
    /\ out' = [kind |-> "interrupt", text |-> "Use '/exit' to quit GPT Code"]
    /\ pc' = "input"
    /\ UNCHANGED <<context, prompt, result, exitCode, runnerInput, turnItems,
                   cancelRequested, toolVars>>

InterruptInput(outcome) ==
    /\ pc = "input"
    /\ outcome \in InterruptOutcomesAtInput
    /\ IF outcome = "raised"
       THEN CatchKeyboardInterrupt
       ELSE /\ ~cancelRequested
            /\ cancelRequested' = TRUE
            /\ UNCHANGED <<pc, context, prompt, result, out, exitCode, runnerInput,
                           turnItems, toolVars>>

InterruptTurn(outcome) ==
    /\ pc = "running"
    /\ outcome \in InterruptOutcomesInTurn
    /\ IF outcome = "raised"
       THEN CatchKeyboardInterrupt
       ELSE /\ pc' = "killed"
            /\ UNCHANGED <<context, prompt, result, out, exitCode, runnerInput,
                           turnItems, cancelRequested, toolVars>>

\* Line 317 with a cancellation pending: the await raises CancelledError.
Cancelled ==
    /\ pc = "running"
    /\ cancelRequested
    /\ pc' = "killed"
    /\ UNCHANGED <<context, prompt, result, out, exitCode, runnerInput, turnItems,
                   cancelRequested, toolVars>>

NoTool == [tool |-> "none"]

Init ==
    /\ pc = "input"
    /\ context = <<>>
    /\ prompt = <<>>
    /\ result = None
    /\ out = Nothing
    /\ exitCode = <<>>
    /\ runnerInput = <<>>
    /\ turnItems = <<>>
    /\ cancelRequested = FALSE
    /\ file = <<>>
    /\ toolArgs = NoTool
    /\ toolLog = <<>>
    /\ spawned = <<>>

Next ==
    \/ \E line \in InputLines : ReadLine(line)
    \/ InputEOF
    \/ ToolCall
    \/ RunnerReturns
    \/ \E msg \in RunnerErrors : RunnerRaises(msg)
    \/ \E outcome \in InterruptOutcomesAtInput : InterruptInput(outcome)
    \/ \E outcome \in InterruptOutcomesInTurn : InterruptTurn(outcome)
    \/ Cancelled

Spec == Init /\ [][Next]_vars

----------------------------------------------------------------------------
(* More text primitives, for the tools. *)

\* All sequences over `chars` of length at most n.
RECURSIVE StringsUpTo(_, _)
StringsUpTo(chars, n) ==
    IF n = 0 THEN {<<>>}
    ELSE LET shorter == StringsUpTo(chars, n - 1)
         IN  shorter \cup {Append(s, c) : s \in shorter, c \in chars}

\* s.lower(), for the letters the model types.
LowerChar(c) ==
    CASE c = "Y" -> "y"
      [] c = "N" -> "n"
      [] OTHER -> c

lower(s) == [i \in 1..Len(s) |-> LowerChar(s[i])]

\* The index of the last non-whitespace character of s at or before i; 0 when
\* there is none.
RECURSIVE ScanBack(_, _)
ScanBack(s, i) ==
    IF i < 1 THEN 0
    ELSE IF s[i] \notin Whitespace THEN i
    ELSE ScanBack(s, i - 1)

\* s.strip()
strip(s) == SubSeq(s, Scan(s, 1, FALSE), ScanBack(s, Len(s)))

OccursAt(s, sub, i) ==
    /\ i + Len(sub) <= Len(s)
    /\ SubSeq(s, i + 1, i + Len(sub)) = sub

\* s.find(sub): the 0-based index of the leftmost occurrence, -1 when none.
RECURSIVE FindFrom(_, _, _)
FindFrom(s, sub, i) ==
    IF i + Len(sub) > Len(s) THEN -1
    ELSE IF OccursAt(s, sub, i) THEN i
    ELSE FindFrom(s, sub, i + 1)

find(s, sub) == FindFrom(s, sub, 0)

\* sub in s
contains(s, sub) == find(s, sub) # -1

\* s.replace(old, new) with no count: every occurrence, left to right.
RECURSIVE replace_all(_, _, _)
replace_all(s, old, new) ==
    LET i == find(s, old)
    IN  IF i = -1 \/ old = <<>> THEN s
        ELSE SubSeq(s, 1, i) \o new
             \o replace_all(SubSeq(s, i + Len(old) + 1, Len(s)), old, new)

\* s.replace(old, new, 1): the leftmost occurrence only.
replace_first(s, old, new) ==
    LET i == find(s, old)
    IN  IF i = -1 THEN s
        ELSE SubSeq(s, 1, i) \o new \o SubSeq(s, i + Len(old) + 1, Len(s))

\* open(path, "r").read(): text mode translates "\r\n" and "\r" to "\n".
RECURSIVE ReadText(_)
ReadText(bytes) ==
    IF bytes = <<>> THEN <<>>
    ELSE IF bytes[1] = "\r"
         THEN IF Len(bytes) >= 2 /\ bytes[2] = "\n"
              THEN <<"\n">> \o ReadText(SubSeq(bytes, 3, Len(bytes)))
              ELSE <<"\n">> \o ReadText(Tail(bytes))
         ELSE <<bytes[1]>> \o ReadText(Tail(bytes))

\* open(path, "w").write(text): text mode writes "\n" as os.linesep.
RECURSIVE WriteText(_, _)
WriteText(text, linesep) ==
    IF text = <<>> THEN <<>>
    ELSE (IF text[1] = "\n" THEN linesep ELSE <<text[1]>>)
         \o WriteText(Tail(text), linesep)

\* os.linesep: POSIX, Windows.
Lineseps == {<<"\n">>, <<"\r", "\n">>}

\* f.readlines(): the text cut after each "\n".
RECURSIVE readlines(_)
readlines(text) ==
    LET i == find(text, <<"\n">>)
    IN  IF text = <<>> THEN <<>>
        ELSE IF i = -1 THEN <<text>>
        ELSE <<SubSeq(text, 1, i + 1)>> \o readlines(SubSeq(text, i + 2, Len(text)))

\* "".join(parts)
RECURSIVE join(_)
join(parts) == IF parts = <<>> THEN <<>> ELSE Head(parts) \o join(Tail(parts))

DigitChars == <<"0", "1", "2", "3", "4", "5", "6", "7", "8", "9">>

RECURSIVE Digits(_)
Digits(n) ==
    IF n < 10 THEN <<DigitChars[n + 1]>>
    ELSE Digits(n \div 10) \o <<DigitChars[(n % 10) + 1]>>

\* f"{i:6d}" for i >= 0: right-aligned in a field of six.
Format6d(i) ==
    LET d == Digits(i)
    IN  [k \in 1..(IF Len(d) < 6 THEN 6 - Len(d) ELSE 0) |-> " "] \o d

Path == "f.txt"

----------------------------------------------------------------------------
(* run_tool: lines 15-41. *)

\* The longest confirmation response.
MaxResponse == 3

ResponseChars == {"y", "Y", "n", " "}

\* What input() does at the confirmation prompt: it returns a line, or raises.
Responses ==
    {[kind |-> "line", text |-> t] : t \in StringsUpTo(ResponseChars, MaxResponse)}
    \cup {[kind |-> "KeyboardInterrupt"], [kind |-> "EOFError"]}

Commands == {"ls", "rm -rf /"}

\* How the child process ends: its return code, stdout and stderr.
ChildOutcomes ==
    {[returncode |-> 0, stdout |-> "out", stderr |-> ""],
     [returncode |-> 1, stdout |-> "", stderr |-> "err"]}

\* Lines 23-25.
run_command(command, child) ==
    IF child.returncode # 0
    THEN <<"Process exited with code ", ToString(child.returncode), ".\n", child.stderr>>
    ELSE <<child.stdout>>

\* Lines 35-38, were anything but "n" taken as a yes.
ConfirmedUnlessNo(text) == lower(strip(text)) # <<"n">>

\* Lines 35-38: the confirmation check.
Confirmed(text) == lower(strip(text)) = <<"y">>

\* Lines 29-41.
RunTool ==
    /\ toolArgs.tool = "run"
    /\ toolLog = <<>>
    /\ \E child \in ChildOutcomes :
          LET response == toolArgs.response
              raised == response.kind # "line"
              go == ~raised /\ Confirmed(response.text)
          IN  /\ spawned' = IF go THEN <<toolArgs.command>> ELSE <<>>
              /\ toolLog' =
                    <<[args |-> toolArgs,
                       raised |-> raised,
                       result |-> IF raised THEN <<>>
                                  ELSE IF go THEN run_command(toolArgs.command, child)
                                  ELSE <<"Command execution canceled by user.">>]>>
    /\ UNCHANGED <<replVars, file, toolArgs>>

ReplIdle ==
    /\ pc = "input"
    /\ context = <<>>
    /\ prompt = <<>>
    /\ result = None
    /\ out = Nothing
    /\ exitCode = <<>>
    /\ runnerInput = <<>>
    /\ turnItems = <<>>
    /\ cancelRequested = FALSE

InitRun ==
    /\ ReplIdle
    /\ file = <<>>
    /\ toolArgs \in {[tool |-> "run", command |-> c, response |-> r] :
                        c \in Commands, r \in Responses}
    /\ toolLog = <<>>
    /\ spawned = <<>>

NextRun == RunTool

SpecRun == InitRun /\ [][NextRun]_vars

----------------------------------------------------------------------------
(* edit_tool: lines 104-130. *)

\* The longest file edit_tool is given, and the longest old_string and
\* new_string.
MaxFileLen == 3

MaxArgLen == 2

FileChars == {"x", "y", "\r", "\n"}

ArgChars == {"x", "y", "\n"}

\* Lines 112-126, were the count of 1 dropped from replace.
edit_tool_all(bytes, old, new, linesep) ==
    IF ~contains(ReadText(bytes), old) THEN bytes
    ELSE WriteText(replace_all(ReadText(bytes), old, new), linesep)

\* Lines 112-126, the file's bytes after the call.  Failing I/O (a missing
\* file, no permission) is left out: the file exists and can be written.
edit_tool_file(bytes, old, new, linesep) ==
    IF ~contains(ReadText(bytes), old) THEN bytes
    ELSE WriteText(replace_first(ReadText(bytes), old, new), linesep)

\* Lines 118-119 and 128, the string returned.
edit_tool_result(bytes, old, new) ==
    IF ~contains(ReadText(bytes), old)
    THEN <<"Error: The specified text was not found in ", Path>>
    ELSE <<"Successfully edited ", Path>>

EditCall(old, new) ==
    /\ file' = edit_tool_file(file, old, new, toolArgs.linesep)
    /\ toolLog' = Append(toolLog,
                         [old |-> old, new |-> new, before |-> file, after |-> file',
                          result |-> edit_tool_result(file, old, new)])
    /\ UNCHANGED <<replVars, toolArgs, spawned>>

\* edit(path, A, B)
EditForward ==
    /\ toolArgs.tool = "edit"
    /\ toolLog = <<>>
    /\ EditCall(toolArgs.a, toolArgs.b)

\* edit(path, B, A), right after it
EditBack ==
    /\ toolArgs.tool = "edit"
    /\ Len(toolLog) = 1
    /\ EditCall(toolArgs.b, toolArgs.a)

InitEdit ==
    /\ ReplIdle
    /\ toolArgs \in {[tool |-> "edit", a |-> a, b |-> b, linesep |-> l] :
                        a \in StringsUpTo(ArgChars, MaxArgLen),
                        b \in StringsUpTo(ArgChars, MaxArgLen),
                        l \in Lineseps}
    /\ file \in StringsUpTo(FileChars, MaxFileLen)
    /\ toolLog = <<>>
    /\ spawned = <<>>

NextEdit == EditForward \/ EditBack

SpecEdit == InitEdit /\ [][NextEdit]_vars

----------------------------------------------------------------------------
(* read_tool: lines 59-82. *)

\* The longest file read_tool is given, and the largest offset and limit asked.
MaxReadLen == 5

MaxOffset == 3

ReadChars == {"a", "\n"}

\* An optional integer: <<>> is None.
Optional(ints) == {<<>>} \cup {<<i>> : i \in ints}

\* Lines 70-73: the lines kept.
Skip(lines, offset) ==
    IF offset # <<>> /\ offset[1] > 0 THEN offset[1] ELSE 0

\* Lines 66-80.  The function takes file_path and offset: a limit the caller
\* asks for has no parameter to go to.
read_tool(bytes, offset) ==
    LET lines == readlines(ReadText(bytes))
        start_line == Skip(lines, offset)
        kept == SubSeq(lines, start_line + 1, Len(lines))
    IN  join([k \in 1..Len(kept) |-> Format6d(start_line + k) \o <<"\t">> \o kept[k]])

ReadTool ==
    /\ toolArgs.tool = "read"
    /\ toolLog = <<>>
    /\ toolLog' = <<[args |-> toolArgs, result |-> read_tool(file, toolArgs.offset)]>>
    /\ UNCHANGED <<replVars, file, toolArgs, spawned>>

InitRead ==
    /\ ReplIdle
    /\ file \in StringsUpTo(ReadChars, MaxReadLen)
    /\ toolArgs \in {[tool |-> "read", offset |-> o, limit |-> l] :
                        o \in Optional(-1..MaxOffset), l \in Optional(1..MaxOffset)}
    /\ toolLog = <<>>
    /\ spawned = <<>>

NextRead == ReadTool

SpecRead == InitRead /\ [][NextRead]_vars

----------------------------------------------------------------------------
(* The claims about the REPL loop. *)

RegisteredNames == {cmd_system[i].name : i \in 1..Len(cmd_system)}

\* C1: after every turn that completes, the stored context is exactly the
\* history the Runner returned: the same length, the user item not appended a
\* second time, whatever the context before and however many tool calls.
C1_ContextIsRunnerHistory ==
    out.kind = "answer" =>
        /\ result.type = "RunResult"
        /\ context = result.history
        /\ Len(context) = Len(result.history)
        /\ Len(context) = Len(runnerInput) + Len(turnItems) + 1
        /\ context[Len(context)] # UserItem(prompt)

C1_Witness ==
    /\ out.kind = "answer"
    /\ pc = "input"
    /\ Len(turnItems) >= 1
    /\ Len(runnerInput) >= 2
    /\ context = result.history

\* C2: a turn that fails with an Exception is reported as Error: <message>, the
\* loop goes back to awaiting input without ending, and the context is the one
\* from before the turn: neither the user item nor a partial tool item is kept.
C2_ErrorKeepsContext ==
    [][/\ \A msg \in RunnerErrors :
             RunnerRaises(msg) => out' = [kind |-> "error", text |-> msg]
       /\ (pc = "running" /\ out'.kind = "error") =>
             /\ pc' = "input"
             /\ exitCode' = <<>>
             /\ context' = context
             /\ context' \o <<UserItem(prompt)>> = runnerInput]_vars

C2_Witness ==
    /\ pc = "input"
    /\ out.kind = "error"
    /\ out.text \in RunnerErrors
    /\ Len(turnItems) >= 1
    /\ Len(context) >= 1
    /\ context \o <<UserItem(prompt)>> = runnerInput

\* C3: an interrupt while a turn is in progress aborts only that turn: a notice
\* is printed, the loop is back at awaiting input, not ended, and the context is
\* the one committed before the turn.
C3_InterruptAbortsTurnOnly ==
    [][\A outcome \in InterruptOutcomesInTurn :
          InterruptTurn(outcome) =>
             /\ pc' = "input"
             /\ out'.kind = "interrupt"
             /\ context' = context]_vars

\* C5: /exit and /quit, in any state of the context, end the loop with exit
\* code 0 and without a model call.
C5_ExitAndQuitTerminate ==
    [][\A line \in InputLines :
          (/\ ReadLine(line)
           /\ startswith(line, "/")
           /\ split(line)[1] \in {<<"/", "e", "x", "i", "t">>,
                                  <<"/", "q", "u", "i", "t">>}) =>
             /\ pc' = "returned"
             /\ exitCode' = <<0>>
             /\ runnerInput' = runnerInput]_vars

\* C6: a line beginning with / is resolved through the registry by its first
\* whitespace-delimited token and never reaches the Runner; when the token is
\* not registered, the unknown-command notice is printed, the context is
\* unchanged and the loop awaits input again.
C6_SlashNeverReachesRunner ==
    /\ [](pc = "running" => ~startswith(prompt, "/"))
    /\ [][\A line \in InputLines :
             (ReadLine(line) /\ startswith(line, "/")) =>
                /\ pc' # "running"
                /\ runnerInput' = runnerInput
                /\ turnItems' = turnItems
                /\ IF split(line)[1] \in RegisteredNames
                   THEN out'.kind # "unknown"
                   ELSE /\ out' = [kind |-> "unknown", text |-> split(line)[1]]
                        /\ context' = context
                        /\ pc' = "input"
                        /\ exitCode' = <<>>]_vars

C6_Witness ==
    /\ pc = "input"
    /\ out.kind = "unknown"
    /\ out.text = <<"/", "e", "x", "i", "t", "s">>
    /\ Len(context) >= 2

\* C7: the context is empty at the start; after /clear, whatever the context
\* was, it is empty again, so the next turn is invoked with exactly the one new
\* user item; /help leaves the context as it was.
C7_ClearEmptiesContext ==
    /\ context = <<>>
    /\ [](pc = "running" => runnerInput = context \o <<UserItem(prompt)>>)
    /\ [][\A line \in InputLines :
             (ReadLine(line) /\ startswith(line, "/")) =>
                /\ split(line)[1] = <<"/", "c", "l", "e", "a", "r">> =>
                      /\ context' = <<>>
                      /\ pc' = "input"
                /\ split(line)[1] = <<"/", "h", "e", "l", "p">> =>
                      /\ context' = context
                      /\ out'.kind = "help"
                      /\ pc' = "input"]_vars

C7_Witness ==
    /\ pc = "running"
    /\ result = [type |-> "list", value |-> <<>>]
    /\ context = <<>>
    /\ runnerInput = <<UserItem(prompt)>>
    /\ Len(turnItems) >= 1

----------------------------------------------------------------------------
(* The claims about the tools. *)

\* C4, as claimed: run never spawns the command unless the response is exactly
\* "y" or "Y"; any other response spawns nothing and returns the cancellation
\* string; an interrupt at the prompt spawns nothing.
C4_SpawnsOnlyOnExactY ==
    \A i \in 1..Len(toolLog) :
        LET response == toolLog[i].args.response
            exactY == response.kind = "line" /\ lower(response.text) = <<"y">>
        IN  /\ spawned # <<>> => exactY
            /\ (response.kind = "line" /\ ~exactY) =>
                  /\ spawned = <<>>
                  /\ toolLog[i].result = <<"Command execution canceled by user.">>
            /\ response.kind # "line" => spawned = <<>>

\* C4, amended: run spawns the command exactly when the response, with the
\* whitespace around it stripped, is "y" or "Y"; any other response spawns
\* nothing and returns the cancellation string; an interrupt at the prompt
\* spawns nothing and returns nothing.
C4_SpawnsOnlyOnStrippedY ==
    \A i \in 1..Len(toolLog) :
        LET response == toolLog[i].args.response
            yes == response.kind = "line" /\ lower(strip(response.text)) = <<"y">>
        IN  /\ spawned # <<>> <=> yes
            /\ spawned # <<>> => spawned = <<toolLog[i].args.command>>
            /\ (response.kind = "line" /\ ~yes) =>
                  toolLog[i].result = <<"Command execution canceled by user.">>
            /\ response.kind # "line" => (toolLog[i].raised /\ toolLog[i].result = <<>>)

C4_Witness ==
    /\ Len(toolLog) = 1
    /\ toolLog[1].args.command = "rm -rf /"
    /\ toolLog[1].args.response = [kind |-> "line", text |-> <<"y", "n">>]
    /\ spawned = <<>>
    /\ toolLog[1].result = <<"Command execution canceled by user.">>

\* The number of places where sub occurs in s.
Count(s, sub) == Cardinality({i \in 0..Len(s) : OccursAt(s, sub, i)})

ClaimedRead(bytes, offset, limit) ==
    LET lines == readlines(ReadText(bytes))
        skip == IF offset = <<>> \/ offset[1] <= 0 THEN 0 ELSE offset[1]
        rest == SubSeq(lines, skip + 1, Len(lines))
        n == IF limit = <<>> \/ limit[1] >= Len(rest) THEN Len(rest) ELSE limit[1]
    IN  join([k \in 1..n |-> Format6d(skip + k) \o <<"\t">> \o rest[k]])

C9_ReadOffsetLimit ==
    \A i \in 1..Len(toolLog) :
        toolLog[i].result = ClaimedRead(file, toolLog[i].args.offset, toolLog[i].args.limit)

\* C10: edit changes the file only when old_string occurs in it: on a miss the
\* file is as it was and the result is an error naming the path; on a hit the
\* file is the original with the leftmost old_string replaced by new_string and
\* everything else as it was.
C10_EditFirstOccurrence ==
    \A i \in 1..Len(toolLog) :
        LET e == toolLog[i]
        IN  IF contains(e.before, e.old)
            THEN e.after = replace_first(e.before, e.old, e.new)
            ELSE /\ e.after = e.before
                 /\ e.result = <<"Error: The specified text was not found in ", Path>>

====
